---- MODULE Spec2Model ----
(***************************************************************************)
(* A model of the lessgo route/handler identity registry (apihandler.go:   *)
(* ApiHandler and VirtHandler) and of the pooled dispatch adapter of the   *)
(* fasthttp engine (engine/fasthttp/server.go).                            *)
(*                                                                         *)
(* Go strings are sequences of one-character strings, so that sorting,     *)
(* splitting, cleaning and concatenation are computed, not assumed.        *)
(***************************************************************************)
EXTENDS Integers, Sequences, FiniteSets, Bags, TLC

(***************************************************************************)
(* Bounds of the model.                                                    *)
(***************************************************************************)
\* longest declared Types list drawn for initTypes
MaxTypes == 3
\* longest declared Params list drawn for initParamsAndSuffix
MaxParams == 2
\* number of goroutines, each making one Reg() call
NumProcs == 3
\* longest raw prefix drawn for creatPrefix
MaxPrefixLen == 5
\* number of goroutines, each making one NewVirtHandler call
NumCallers == 2
\* number of workers, each running one ServeHTTP dispatch cycle
NumWorkers == 2
\* number of goroutines calling Reg() on one and the same declared value
NumSharers == 2

(***************************************************************************)
(* State.                                                                  *)
(***************************************************************************)
VARIABLES
    \* the operation registry and the goroutines calling ApiHandler.Reg()
    decls,          \* the ApiHandler values the declaring code holds (their Types and Params arrays)
    heap,           \* the ApiHandler copies made by Reg(), by the goroutine that made them
    apiHandlerMap,  \* id -> descriptor
    apiHandlers,    \* DefLessgo.apiHandlers
    pc,             \* where each goroutine is in Reg()/init()
    arg,            \* the receiver of each call: a declared value, or a descriptor returned earlier
    ret,            \* what each finished call returned (Nil for a nil pointer)
    sequential,     \* the callers make their calls one after another
    calls,          \* sequential runs: the registry as it was when each call began and ended
    \* init() on one declared value
    given,          \* the ApiHandler value as declared
    self,           \* the ApiHandler that init() works on
    ipc,            \* the statement of init() that runs next
    \* creatPrefix on one raw prefix
    rawPrefix,      \* the prefix as declared
    prefixParts,    \* what creatPrefix returned
    ppc,            \* whether creatPrefix has run
    \* the prefix-bound registry and the goroutines calling NewVirtHandler
    virtHandlerMap, \* id -> VirtHandler
    handlerMap,     \* id -> HandlerFunc
    vheap,          \* the VirtHandler built by each call
    vpc,            \* where each goroutine is in NewVirtHandler
    vret,           \* what each finished call returned
    \* the Server's pools and the workers running ServeHTTP
    pool,           \* pool field -> bag of the wrapper instances it holds
    wrappers,       \* wrapper instance -> what its last reset bound it to
    held,           \* the locals rq, rqHdr, rqURL, rs, rsHdr of each cycle
    spc,            \* where each worker is in ServeHTTP
    puts,           \* the Put calls each cycle has made, in order
    \* Server.Start on one configuration
    config,         \* s.config
    stpc,           \* where Start is
    served,         \* the listen/serve call Start made, with its arguments
    startRet,       \* the error Start returned
    \* the handler and the logger of the Server
    sHandler,       \* s.handler
    logger,         \* s.logger
    logged,         \* the errors each cycle's handler call recorded, by the logger that took them
    \* one call of a handler made by WrapHandler or WrapMiddleware
    wkind,          \* which of the two made the handler
    wctx,           \* rq.RequestCtx: the native context and its response
    wrs,            \* the cached status and size of the response wrapper
    wtrace,         \* the calls of h and next and the copy-back, in order
    wpc,            \* the statement that runs next
    wret,           \* what the handler returned
    \* goroutines calling Reg() on one declared ApiHandler value, statement by statement
    declared,       \* the declared value: its Types and Params arrays are shared by the copies
    copies,         \* the copy each Reg() call works on
    shpc            \* where each goroutine is in Reg()/init()

regVars == << decls, heap, apiHandlerMap, apiHandlers, pc, arg, ret, sequential, calls >>
initVars == << given, self, ipc >>

prefixVars == << rawPrefix, prefixParts, ppc >>

virtVars == << virtHandlerMap, handlerMap, vheap, vpc, vret >>

serveVars == << pool, wrappers, held, spc, puts >>

startVars == << config, stpc, served, startRet >>

handlerVars == << sHandler, logger, logged >>

wrapVars == << wkind, wctx, wrs, wtrace, wpc, wret >>

sharedVars == << declared, copies, shpc >>

vars == << regVars, initVars, prefixVars, virtVars, serveVars, startVars, handlerVars, wrapVars, sharedVars >>

\* What the steps of one part of the program leave alone.
notReg == << initVars, prefixVars, virtVars, serveVars, startVars, handlerVars, wrapVars, sharedVars >>
notInit == << regVars, prefixVars, virtVars, serveVars, startVars, handlerVars, wrapVars, sharedVars >>
notPrefix == << regVars, initVars, virtVars, serveVars, startVars, handlerVars, wrapVars, sharedVars >>
notVirt == << regVars, initVars, prefixVars, serveVars, startVars, handlerVars, wrapVars, sharedVars >>
notServe == << regVars, initVars, prefixVars, virtVars, startVars, wrapVars, sharedVars >>
notStart == << regVars, initVars, prefixVars, virtVars, serveVars, handlerVars, wrapVars, sharedVars >>
notWrap == << regVars, initVars, prefixVars, virtVars, serveVars, startVars, handlerVars, sharedVars >>
notShared == << regVars, initVars, prefixVars, virtVars, serveVars, startVars, handlerVars, wrapVars >>
serveFrame == << notServe, handlerVars >>

(***************************************************************************)
(* Strings.                                                                *)
(***************************************************************************)
\* The characters the model uses, in ASCII order (Go compares strings bytewise).
Chars ==
    << ".", "/", ":", "?", "A", "C", "D", "E", "G", "H", "I", "L", "N", "O", "P", "R", "S", "T", "U", "W",
       "[", "]", "d", "e", "f", "g", "h", "i", "m", "n", "o", "p", "r", "s", "t", "u" >>

Ord(c) == CHOOSE i \in 1..Len(Chars) : Chars[i] = c

\* s < t on Go strings: bytewise lexical order.
RECURSIVE StrLess(_, _)
StrLess(s, t) ==
    IF t = <<>> THEN FALSE
    ELSE IF s = <<>> THEN TRUE
    ELSE IF Head(s) = Head(t) THEN StrLess(Tail(s), Tail(t))
    ELSE Ord(Head(s)) < Ord(Head(t))

\* All sequences over S of length 0..n.
SeqsUpTo(S, n) == UNION { [1..k -> S] : k \in 0..n }

RECURSIVE Concat(_)
Concat(ss) == IF ss = <<>> THEN <<>> ELSE Head(ss) \o Concat(Tail(ss))

\* sort.Strings: the ascending arrangement of a list of strings (insertion sort;
\* equal strings are indistinguishable, so stability does not matter).
RECURSIVE InsertSorted(_, _)
InsertSorted(x, s) ==
    IF s = <<>> THEN <<x>>
    ELSE IF StrLess(Head(s), x) THEN <<Head(s)>> \o InsertSorted(x, Tail(s))
    ELSE <<x>> \o s

RECURSIVE SortStrings(_)
SortStrings(s) == IF s = <<>> THEN <<>> ELSE InsertSorted(Head(s), SortStrings(Tail(s)))

(***************************************************************************)
(* Request types and methods.  The constants and GetMethodFromType live in *)
(* a file of the package that is not part of the sources at hand.          *)
(***************************************************************************)
CONNECT == << "C", "O", "N", "N", "E", "C", "T" >>
DELETE == << "D", "E", "L", "E", "T", "E" >>
GET == << "G", "E", "T" >>
HEAD == << "H", "E", "A", "D" >>
OPTIONS == << "O", "P", "T", "I", "O", "N", "S" >>
PATCH == << "P", "A", "T", "C", "H" >>
POST == << "P", "O", "S", "T" >>
PUT == << "P", "U", "T" >>
TRACE == << "T", "R", "A", "C", "E" >>
\* a case variant of GET, as a caller may write it
get == << "g", "e", "t" >>

AllTypes == << CONNECT, DELETE, GET, HEAD, OPTIONS, PATCH, POST, PUT, TRACE >>

ToUpperChar(c) ==
    CASE c = "d" -> "D" [] c = "e" -> "E" [] c = "g" -> "G" [] c = "h" -> "H"
      [] c = "i" -> "I" [] c = "n" -> "N" [] c = "o" -> "O" [] c = "p" -> "P"
      [] c = "r" -> "R" [] c = "s" -> "S" [] c = "t" -> "T" [] c = "u" -> "U"
      [] OTHER -> c

\* The dispatch-level method token of a request type: case variants of a type
\* name the same method.
GetMethodFromType(t) == [i \in 1..Len(t) |-> ToUpperChar(t[i])]

(***************************************************************************)
(* ApiHandler: the pure parts of init().                                   *)
(***************************************************************************)
PATH == << "p", "a", "t", "h" >>
QUERY == << "q", "u", "e", "r", "y" >>

\* Param (Format and Desc are carried as one opaque value each).
NewParam(name, in, required) ==
    [Name |-> name, In |-> in, Required |-> required, Format |-> "fmt", Desc |-> "pdesc"]

\* A declared ApiHandler value: the zero value of the unexported fields.
NewApiHandler(handler, desc, types, params) ==
    [Handler |-> handler, Desc |-> desc, Types |-> types, methods |-> <<>>,
     Params |-> params, id |-> <<>>, suffix |-> <<>>, inited |-> FALSE]

\* initParamsAndSuffix, the loop from index i (1-based) on.
RECURSIVE ParamsLoop(_, _, _)
ParamsLoop(params, suffix, i) ==
    IF i > Len(params) THEN [Params |-> params, suffix |-> suffix]
    ELSE IF params[i].In = PATH
         THEN ParamsLoop([params EXCEPT ![i].Required = TRUE],
                         suffix \o << "/", ":" >> \o params[i].Name, i + 1)
         ELSE ParamsLoop(params, suffix, i + 1)

\* An initParamsAndSuffix that flags every parameter as required.
initParamsAndSuffixAll(a) ==
    LET r == ParamsLoop(a.Params, <<>>, 1)
    IN [a EXCEPT !.Params = [i \in 1..Len(a.Params) |-> [r.Params[i] EXCEPT !.Required = TRUE]],
                 !.suffix = r.suffix]

initParamsAndSuffix(a) ==
    LET r == ParamsLoop(a.Params, <<>>, 1)
    IN [a EXCEPT !.Params = r.Params, !.suffix = r.suffix]

\* The loop of initTypes over the backing array arr, of which the slice a.Types
\* is the first n elements; i is the 0-based loop index of the code.
\* append(a.Types[:i], a.Types[i+1:]...) moves elements i+1..n-1 of the backing
\* array one place down and leaves its last element in place.
RECURSIVE TypesLoop(_, _, _, _, _)
TypesLoop(arr, n, methods, i, count) ==
    IF ~(i < count) THEN [arr |-> arr, n |-> n, methods |-> methods]
    ELSE IF i > 0 /\ arr[i] = arr[i + 1]
         THEN TypesLoop([k \in 1..Len(arr) |-> IF k >= i + 1 /\ k < n THEN arr[k + 1] ELSE arr[k]],
                        n - 1, methods, i, count - 1)
         ELSE TypesLoop(arr, n, Append(methods, GetMethodFromType(arr[i + 1])), i + 1, count)

\* initTypes on the backing array: the array, the slice length and the methods.
initTypesRun(a) ==
    LET count == Len(a.Types)
        t0 == IF count = 0 THEN AllTypes ELSE a.Types
    IN TypesLoop(SortStrings(t0), Len(t0), a.methods, 0, count)

initTypes(a) ==
    LET r == initTypesRun(a)
    IN [a EXCEPT !.Types = SubSeq(r.arr, 1, r.n), !.methods = r.methods]

\* runtime.FuncForPC(v.Pointer()).Name(): the Handler field is modelled by the
\* name of the function it holds (the empty name for a nil func).  Handler has a
\* func type, so reflect always reports Kind Func.
FuncName(handler) == handler

Bracket(s) == << "[" >> \o s \o << "]" >>

\* An initId that leaves the types out of the id.
initIdNoTypes(a) ==
    [a EXCEPT !.id = FuncName(a.Handler) \o Bracket(a.suffix) \o Bracket(a.Desc)]

initId(a) ==
    LET add == Bracket(a.suffix) \o Bracket(a.Desc)
                 \o Concat([i \in 1..Len(a.Types) |-> Bracket(a.Types[i])])
    IN [a EXCEPT !.id = FuncName(a.Handler) \o add]

(***************************************************************************)
(* The operation registry: apiHandlerMap, DefLessgo.apiHandlers and the    *)
(* goroutines calling ApiHandler.Reg().                                    *)
(***************************************************************************)

Procs == 1..NumProcs
Nil == 0

f == << "f" >>
g == << "g" >>
e == << "e" >>
desc == << "d" >>
id == << "i", "d" >>
nm == << "n" >>

\* The declarations of the route-declaring code.  1 and 2 are the same logical
\* declaration written twice; 3 writes its types in another order, with a
\* repetition, and leaves the query parameter out; 4 and 5 are other operations.
Declarations ==
    << NewApiHandler(f, desc, << POST, GET >>, << NewParam(id, PATH, FALSE), NewParam(nm, QUERY, FALSE) >>),
       NewApiHandler(f, desc, << POST, GET >>, << NewParam(id, PATH, FALSE), NewParam(nm, QUERY, FALSE) >>),
       NewApiHandler(f, desc, << GET, POST, GET >>, << NewParam(id, PATH, FALSE) >>),
       NewApiHandler(g, desc, << >>, << >>),
       NewApiHandler(e, desc, << GET >>, << >>) >>

DeclIds == 1..Len(Declarations)

\* apiHandlerMap[id], nil when absent.
Lookup(m, k) == IF k \in DOMAIN m THEN m[k] ELSE Nil

\* getApiHandler: the read under apiHandlerLock.RLock.
getApiHandler(k) == Lookup(apiHandlerMap, k)

\* A setApiHandler that appends without looking for the place.
InsertAtEnd(list, vh) == Len(list) + 1

\* The index at which setApiHandler puts vh: before the first entry with a
\* strictly greater id, at the end when there is none.
InsertAt(list, vh) ==
    IF \E i \in 1..Len(list) : StrLess(heap[vh].id, heap[list[i]].id)
    THEN CHOOSE i \in 1..Len(list) :
            /\ StrLess(heap[vh].id, heap[list[i]].id)
            /\ \A j \in 1..(i - 1) : ~StrLess(heap[vh].id, heap[list[j]].id)
    ELSE Len(list) + 1

\* The list setApiHandler leaves in DefLessgo.apiHandlers.
InsertHandler(list, vh) ==
    LET i == InsertAt(list, vh)
    IN SubSeq(list, 1, i - 1) \o << vh >> \o SubSeq(list, i, Len(list))

RegStart(seq) ==
    /\ decls = Declarations
    /\ heap = << >>
    /\ apiHandlerMap = << >>
    /\ apiHandlers = << >>
    /\ pc = [p \in Procs |-> "idle"]
    /\ arg = [p \in Procs |-> [decl |-> Nil, obj |-> Nil]]
    /\ ret = [p \in Procs |-> Nil]
    /\ sequential = seq
    /\ calls = << >>

\* No call is in progress.
Quiescent == \A p \in Procs : pc[p] \in {"idle", "done"}

\* Goroutines are interchangeable: goroutine p makes the p-th call begun.  In a
\* sequential run a call begins only when none is in progress.
NextToCall(p) ==
    /\ pc[p] = "idle"
    /\ \A q \in 1..(p - 1) : pc[q] # "idle"
    /\ sequential => Quiescent

\* The sizes of the registry.
Sizes(m, l) == [nmap |-> Cardinality(DOMAIN m), nlist |-> Len(l)]

\* A sequential run records the registry as call p finds it ...
CallBegins(p) ==
    calls' = IF sequential
             THEN (p :> [ids0 |-> DOMAIN apiHandlerMap,
                         before |-> Sizes(apiHandlerMap, apiHandlers),
                         after |-> Sizes(apiHandlerMap, apiHandlers)]) @@ calls
             ELSE calls

\* ... and as it leaves it.
CallEnds(p) ==
    calls' = IF sequential
             THEN [calls EXCEPT ![p].after = Sizes(apiHandlerMap, apiHandlers)]
             ELSE calls

\* The descriptors that share the arrays of declaration d see what init writes.
Aliased(h, d, arr, params) ==
    [o \in DOMAIN h |->
        IF h[o].decl = d
        THEN [h[o] EXCEPT !.Params = params,
                          !.Types = IF Len(decls[d].Types) > 0
                                    THEN SubSeq(arr, 1, Len(h[o].Types)) ELSE @]
        ELSE h[o]]

\* a.Reg() on the declared value d, up to the first getApiHandler.  The value
\* receiver copies the struct (its lock included); the copy shares the Types and
\* Params arrays of d, which initTypes and initParamsAndSuffix write in place.
\* The lock taken is the copy's own, free and known to no other goroutine.
RegCall(p, d) ==
    /\ NextToCall(p)
    /\ LET a0 == [lock |-> FALSE, decl |-> d] @@ decls[d]
           run == initTypesRun(a0)
           a1 == [initId(initParamsAndSuffix(initTypes(a0))) EXCEPT !.inited = TRUE, !.lock = TRUE]
           arr == IF Len(a0.Types) > 0 THEN run.arr ELSE decls[d].Types
       IN /\ decls' = [decls EXCEPT ![d].Types = arr, ![d].Params = a1.Params]
          /\ heap' = (p :> a1) @@ Aliased(heap, d, arr, a1.Params)
    /\ arg' = [arg EXCEPT ![p] = [decl |-> d, obj |-> Nil]]
    /\ pc' = [pc EXCEPT ![p] = "get"]
    /\ CallBegins(p)
    /\ UNCHANGED << apiHandlerMap, apiHandlers, ret, sequential >>
    /\ UNCHANGED notReg

\* h.Reg() on a descriptor h that an earlier call returned: init() runs on a copy
\* of *h, which is inited.  A copy taken while the lock of *h is held is a locked
\* mutex that nobody unlocks: a.lock.Lock() never returns.
RegObjCall(p, q) ==
    /\ NextToCall(p)
    /\ pc[q] = "done" /\ ret[q] # Nil
    /\ heap' = (p :> [heap[ret[q]] EXCEPT !.lock = TRUE]) @@ heap
    /\ arg' = [arg EXCEPT ![p] = [decl |-> Nil, obj |-> ret[q]]]
    /\ pc' = [pc EXCEPT ![p] = IF heap[ret[q]].lock THEN "blocked" ELSE "getInited"]
    /\ CallBegins(p)
    /\ UNCHANGED << decls, apiHandlerMap, apiHandlers, ret, sequential >>
    /\ UNCHANGED notReg

\* if a.inited { return getApiHandler(a.id) }, with the deferred
\* a.lock.Unlock(): the lock is that of the copy, which no one else can reach.
GetInited(p) ==
    /\ pc[p] = "getInited"
    /\ ret' = [ret EXCEPT ![p] = getApiHandler(heap[p].id)]
    /\ heap' = [heap EXCEPT ![p].lock = FALSE]
    /\ pc' = [pc EXCEPT ![p] = "done"]
    /\ CallEnds(p)
    /\ UNCHANGED << decls, apiHandlerMap, apiHandlers, arg, sequential >>
    /\ UNCHANGED notReg

\* An init() that stores its descriptor without looking for an existing one.
GetExistingSkipped(p) ==
    /\ pc[p] = "get"
    /\ pc' = [pc EXCEPT ![p] = "set"]
    /\ UNCHANGED << decls, heap, apiHandlerMap, apiHandlers, arg, ret, sequential, calls >>
    /\ UNCHANGED notReg

\* if h := getApiHandler(a.id); h != nil { return h }
\* When h is returned the deferred a.lock.Unlock() runs on the copy, which was
\* never stored and which no one else can reach.
GetExisting(p) ==
    /\ pc[p] = "get"
    /\ IF getApiHandler(heap[p].id) # Nil
       THEN /\ ret' = [ret EXCEPT ![p] = getApiHandler(heap[p].id)]
            /\ heap' = [heap EXCEPT ![p].lock = FALSE]
            /\ pc' = [pc EXCEPT ![p] = "done"]
            /\ CallEnds(p)
       ELSE /\ pc' = [pc EXCEPT ![p] = "set"]
            /\ UNCHANGED << ret, heap, calls >>
    /\ UNCHANGED << decls, apiHandlerMap, apiHandlers, arg, sequential >>
    /\ UNCHANGED notReg

\* setApiHandler(a); return a   (the whole function runs under apiHandlerLock.Lock)
setApiHandler(p) ==
    /\ pc[p] = "set"
    /\ apiHandlerMap' = (heap[p].id :> p) @@ apiHandlerMap
    /\ apiHandlers' = InsertHandler(apiHandlers, p)
    /\ ret' = [ret EXCEPT ![p] = p]
    /\ pc' = [pc EXCEPT ![p] = "unlock"]
    /\ UNCHANGED << decls, heap, arg, sequential, calls >>
    /\ UNCHANGED notReg

\* defer a.lock.Unlock() of a descriptor that was stored, and the return to the
\* caller: until then a copy of the stored descriptor is a locked mutex.
Unlock(p) ==
    /\ pc[p] = "unlock"
    /\ heap' = [heap EXCEPT ![p].lock = FALSE]
    /\ pc' = [pc EXCEPT ![p] = "done"]
    /\ CallEnds(p)
    /\ UNCHANGED << decls, apiHandlerMap, apiHandlers, arg, ret, sequential >>
    /\ UNCHANGED notReg

RegNext ==
    \E p \in Procs :
        \/ \E d \in DeclIds : RegCall(p, d)
        \/ \E q \in Procs : RegObjCall(p, q)
        \/ GetInited(p)
        \/ GetExisting(p)
        \/ setApiHandler(p)
        \/ Unlock(p)

\* The registry while another part of the program is looked at.
RegIdle ==
    /\ decls = Declarations
    /\ heap = << >>
    /\ apiHandlerMap = << >>
    /\ apiHandlers = << >>
    /\ pc = [p \in Procs |-> "done"]
    /\ arg = [p \in Procs |-> [decl |-> Nil, obj |-> Nil]]
    /\ ret = [p \in Procs |-> Nil]
    /\ sequential = FALSE
    /\ calls = << >>

(***************************************************************************)
(* NilApiHandler: a descriptor with a description only, stored in          *)
(* apiHandlerMap by the function itself.                                   *)
(***************************************************************************)
NilDescs == {desc, e}

\* a := &ApiHandler{Desc: desc}; a.initId(); a.inited = true
\* Handler is nil, Types and Params are empty: initTypes does not run.
NilApiHandler(p, d) ==
    /\ NextToCall(p)
    /\ LET a0 == [lock |-> FALSE, decl |-> Nil] @@ NewApiHandler(<< >>, d, << >>, << >>)
       IN heap' = (p :> [initId(a0) EXCEPT !.inited = TRUE]) @@ heap
    /\ arg' = [arg EXCEPT ![p] = [decl |-> Nil, obj |-> Nil]]
    /\ pc' = [pc EXCEPT ![p] = "nilGet"]
    /\ CallBegins(p)
    /\ UNCHANGED << decls, apiHandlerMap, apiHandlers, ret, sequential >>
    /\ UNCHANGED notReg

\* if getApiHandler(a.id) != nil
NilGetExisting(p) ==
    /\ pc[p] = "nilGet"
    /\ pc' = [pc EXCEPT ![p] = IF getApiHandler(heap[p].id) # Nil THEN "nilExisting" ELSE "nilSet"]
    /\ UNCHANGED << decls, heap, apiHandlerMap, apiHandlers, arg, ret, sequential, calls >>
    /\ UNCHANGED notReg

\* return apiHandlerMap[a.id]: a read of the map with no lock held.  While
\* another goroutine is writing the map the Go runtime may stop the program.
NilReturnExisting(p) ==
    /\ pc[p] = "nilExisting"
    /\ \/ /\ ret' = [ret EXCEPT ![p] = Lookup(apiHandlerMap, heap[p].id)]
          /\ pc' = [pc EXCEPT ![p] = "done"]
          /\ CallEnds(p)
       \/ /\ \E q \in Procs \ {p} : pc[q] \in {"set", "nilSet"}
          /\ pc' = [pc EXCEPT ![p] = "fatal"]
          /\ UNCHANGED << ret, calls >>
    /\ UNCHANGED << decls, heap, apiHandlerMap, apiHandlers, arg, sequential >>
    /\ UNCHANGED notReg

\* apiHandlerLock.Lock(); apiHandlerMap[a.id] = a; return a
\* DefLessgo.apiHandlers is not touched.
NilSet(p) ==
    /\ pc[p] = "nilSet"
    /\ apiHandlerMap' = (heap[p].id :> p) @@ apiHandlerMap
    /\ ret' = [ret EXCEPT ![p] = p]
    /\ pc' = [pc EXCEPT ![p] = "done"]
    /\ CallEnds(p)
    /\ UNCHANGED << decls, heap, apiHandlers, arg, sequential >>
    /\ UNCHANGED notReg

\* Reg() and NilApiHandler() calls.
RegNilNext ==
    \/ RegNext
    \/ \E p \in Procs :
          \/ \E d \in NilDescs : NilApiHandler(p, d)
          \/ NilGetExisting(p)
          \/ NilReturnExisting(p)
          \/ NilSet(p)

(***************************************************************************)
(* Two declarations registered one after the other: the first by the first *)
(* goroutine, the second by the second, when the first call has returned.  *)
(***************************************************************************)
\* a description that holds the delimiters of the id
descGET == << "d", "]", "[", "G", "E", "T" >>

PairTypes == SeqsUpTo({GET, POST}, MaxTypes) \cup {AllTypes}

PairParams ==
    { << NewParam(id, PATH, FALSE) >>,
      << NewParam(id, PATH, FALSE), NewParam(nm, QUERY, FALSE) >>,
      << NewParam(id, PATH, FALSE), NewParam(nm, PATH, FALSE) >>,
      << NewParam(nm, PATH, FALSE), NewParam(id, PATH, FALSE) >> }

\* The pairs of declarations of one Handler.
PairDeclarations ==
    { << NewApiHandler(f, desc, t1, ps1), NewApiHandler(f, d2, t2, ps2) >> :
        t1 \in PairTypes, t2 \in PairTypes,
        ps1 \in { ps \in PairParams : ps[1].Name = id },
        ps2 \in PairParams,
        d2 \in {desc, e, descGET} }

PairStart ==
    /\ decls \in PairDeclarations
    /\ heap = << >>
    /\ apiHandlerMap = << >>
    /\ apiHandlers = << >>
    /\ pc = [p \in Procs |-> "idle"]
    /\ arg = [p \in Procs |-> [decl |-> Nil, obj |-> Nil]]
    /\ ret = [p \in Procs |-> Nil]
    /\ sequential = TRUE
    /\ calls = << >>

PairNext ==
    \E p \in Procs :
        \/ \E d \in {p} \cap DOMAIN decls : RegCall(p, d)
        \/ GetExisting(p)
        \/ setApiHandler(p)
        \/ Unlock(p)

(***************************************************************************)
(* init() on one declared value, step by step: the declared Types and      *)
(* Params are drawn from bounded sets.                                     *)
(***************************************************************************)
TypeTokens == {GET, POST, get}

ParamSpace == {NewParam(n, in, r) : n \in {id, nm}, in \in {PATH, QUERY}, r \in BOOLEAN}

\* initTypes reads and writes Types and methods only, initParamsAndSuffix Params
\* and suffix only: the declared values vary one list at a time.
InitInputs ==
    {NewApiHandler(f, desc, t, << >>) : t \in SeqsUpTo(TypeTokens, MaxTypes)}
        \cup {NewApiHandler(f, desc, << >>, ps) : ps \in SeqsUpTo(ParamSpace, MaxParams)}

InitIdle ==
    /\ given = NewApiHandler(<< >>, << >>, << >>, << >>)
    /\ self = given
    /\ ipc = "done"

InitStart ==
    /\ given \in InitInputs
    /\ self = given
    /\ ipc = "initTypes"

DoInitTypes ==
    /\ ipc = "initTypes"
    /\ self' = initTypes(self)
    /\ ipc' = "initParamsAndSuffix"
    /\ UNCHANGED given
    /\ UNCHANGED notInit

DoInitParamsAndSuffix ==
    /\ ipc = "initParamsAndSuffix"
    /\ self' = initParamsAndSuffix(self)
    /\ ipc' = "initId"
    /\ UNCHANGED given
    /\ UNCHANGED notInit

DoInitId ==
    /\ ipc = "initId"
    /\ self' = [initId(self) EXCEPT !.inited = TRUE]
    /\ ipc' = "done"
    /\ UNCHANGED given
    /\ UNCHANGED notInit

InitNext == DoInitTypes \/ DoInitParamsAndSuffix \/ DoInitId

(***************************************************************************)
(* VirtHandler: creatPrefix, with the functions of Go's path and strings   *)
(* packages that it calls.                                                 *)
(***************************************************************************)
\* strings.Index: the first index (1-based) at which sep occurs in s, 0 if none.
Index(s, sep) ==
    LET at == {i \in 1..(Len(s) - Len(sep) + 1) : SubSeq(s, i, i + Len(sep) - 1) = sep}
    IN IF at = {} THEN 0 ELSE CHOOSE i \in at : \A j \in at : i <= j

\* strings.Split for a non-empty separator.
RECURSIVE Split(_, _)
Split(s, sep) ==
    LET i == Index(s, sep)
    IN IF i = 0 THEN << s >>
       ELSE << SubSeq(s, 1, i - 1) >> \o Split(SubSeq(s, i + Len(sep), Len(s)), sep)

\* strings.Join
RECURSIVE Join(_, _)
Join(ss, sep) ==
    IF ss = << >> THEN << >>
    ELSE IF Len(ss) = 1 THEN ss[1]
    ELSE ss[1] \o sep \o Join(Tail(ss), sep)

\* path.Clean, element by element: empty and "." elements go, ".." takes the
\* element before it with it (at the root it just goes; in a relative path with
\* nothing before it, it stays).
RECURSIVE CleanElems(_, _, _)
CleanElems(elems, kept, rooted) ==
    IF elems = << >> THEN kept
    ELSE LET x == Head(elems)
             rest == Tail(elems)
         IN IF x = << >> \/ x = << "." >> THEN CleanElems(rest, kept, rooted)
            ELSE IF x = << ".", "." >>
                 THEN IF kept # << >> /\ kept[Len(kept)] # << ".", "." >>
                      THEN CleanElems(rest, SubSeq(kept, 1, Len(kept) - 1), rooted)
                      ELSE IF rooted THEN CleanElems(rest, kept, rooted)
                      ELSE CleanElems(rest, Append(kept, x), rooted)
                 ELSE CleanElems(rest, Append(kept, x), rooted)

PathClean(path) ==
    IF path = << >> THEN << "." >>
    ELSE LET rooted == path[1] = "/"
             out == (IF rooted THEN << "/" >> ELSE << >>)
                        \o Join(CleanElems(Split(path, << "/" >>), << >>, rooted), << "/" >>)
         IN IF out = << >> THEN << "." >> ELSE out

\* path.Join: the elements from the first non-empty one on, joined by "/" and
\* cleaned; "" when all are empty.
RECURSIVE PathJoin(_)
PathJoin(elems) ==
    IF elems = << >> THEN << >>
    ELSE IF Head(elems) = << >> THEN PathJoin(Tail(elems))
    ELSE PathClean(Join(elems, << "/" >>))

\* A creatPrefix that leaves the marker out of prefixParam.
creatPrefixNoMarker(prefix) ==
    LET cleanPrefix == Split(PathClean(PathJoin(<< << "/" >>, prefix >>)), << "?" >>)[1]
        parts == Split(cleanPrefix, << "/", ":" >>)
    IN [cleanPrefix |-> cleanPrefix,
        prefixPath |-> parts[1],
        prefixParam |-> IF Len(parts) > 1 THEN Join(Tail(parts), << "/", ":" >>) ELSE << >>]

creatPrefix(prefix) ==
    LET cleanPrefix == Split(PathClean(PathJoin(<< << "/" >>, prefix >>)), << "?" >>)[1]
        parts == Split(cleanPrefix, << "/", ":" >>)
    IN [cleanPrefix |-> cleanPrefix,
        prefixPath |-> parts[1],
        prefixParam |-> IF Len(parts) > 1
                        THEN << "/", ":" >> \o Join(Tail(parts), << "/", ":" >>)
                        ELSE << >>]

PrefixChars == {"/", ":", "?", ".", "u"}

\* "/users/:id/posts" and "users"
UsersIdPosts ==
    << "/", "u", "s", "e", "r", "s", "/", ":", "i", "d", "/", "p", "o", "s", "t", "s" >>
Users == << "u", "s", "e", "r", "s" >>

RawPrefixes == SeqsUpTo(PrefixChars, MaxPrefixLen) \cup {UsersIdPosts, Users}

NoParts == [cleanPrefix |-> << >>, prefixPath |-> << >>, prefixParam |-> << >>]

PrefixIdle ==
    /\ rawPrefix = << >>
    /\ prefixParts = NoParts
    /\ ppc = "done"

PrefixStart ==
    /\ rawPrefix \in RawPrefixes
    /\ prefixParts = NoParts
    /\ ppc = "call"

CreatPrefix ==
    /\ ppc = "call"
    /\ prefixParts' = creatPrefix(rawPrefix)
    /\ ppc' = "done"
    /\ UNCHANGED rawPrefix
    /\ UNCHANGED notPrefix

PrefixNext == CreatPrefix

(***************************************************************************)
(* The prefix-bound registry: virtHandlerMap, handlerMap and the           *)
(* goroutines calling NewVirtHandler.                                      *)
(***************************************************************************)
Callers == 1..NumCallers

\* handleWareUri: hw is a HandlerFunc, so reflect reports Kind Func and the id
\* is the name of the function followed by [prefix][method]...
handleWareUri(hw, methods, prefix) ==
    FuncName(hw) \o Bracket(prefix) \o Concat([i \in 1..Len(methods) |-> Bracket(methods[i])])

\* The VirtHandler that NewVirtHandler builds from its arguments.
NewVirt(handlerfunc, prefix, methods, description, produces, params) ==
    LET parts == creatPrefix(prefix)
    IN [id |-> handleWareUri(handlerfunc, methods, parts.cleanPrefix),
        methods |-> methods,
        prefix |-> parts.cleanPrefix,
        prefixPath |-> parts.prefixPath,
        prefixParam |-> parts.prefixParam,
        description |-> description,
        produces |-> produces,
        params |-> params,
        handlerfunc |-> handlerfunc]

\* The arguments the callers pass: "u" and "/u" clean to the same prefix.
VirtHandlerFuncs == {f, g}
VirtPrefixes == { << "u" >>, << "/", "u" >>, << "/", "u", "/", ":", "i" >> }
VirtMethods == { << GET >> }
VirtDescriptions == { desc, e }
VirtProduces == { << >>, << << "j", "s", "o", "n" >> >> }
VirtParams == { << >>, << NewParam(id, PATH, TRUE) >> }

VirtStart ==
    /\ virtHandlerMap = << >>
    /\ handlerMap = << >>
    /\ vheap = << >>
    /\ vpc = [p \in Callers |-> "idle"]
    /\ vret = [p \in Callers |-> Nil]

VirtIdle ==
    /\ virtHandlerMap = << >>
    /\ handlerMap = << >>
    /\ vheap = << >>
    /\ vpc = [p \in Callers |-> "done"]
    /\ vret = [p \in Callers |-> Nil]

\* NewVirtHandler up to hasVirtHandler: creatPrefix, handleWareUri, v := &VirtHandler{...}.
\* Goroutines are interchangeable: goroutine p makes the p-th call begun.  In a
\* sequential run a call begins only when none is in progress.
NewVirtHandler(p, handlerfunc, prefix, methods, description, produces, params) ==
    /\ vpc[p] = "idle"
    /\ \A q \in 1..(p - 1) : vpc[q] # "idle"
    /\ sequential => \A q \in Callers : vpc[q] \in {"idle", "done"}
    /\ vheap' = (p :> NewVirt(handlerfunc, prefix, methods, description, produces, params)) @@ vheap
    /\ vpc' = [vpc EXCEPT ![p] = "has"]
    /\ UNCHANGED << virtHandlerMap, handlerMap, vret >>
    /\ UNCHANGED notVirt

\* A NewVirtHandler that stores its descriptor without looking for one.
hasVirtHandlerSkipped(p) ==
    /\ vpc[p] = "has"
    /\ vpc' = [vpc EXCEPT ![p] = "set"]
    /\ UNCHANGED << virtHandlerMap, handlerMap, vheap, vret >>
    /\ UNCHANGED notVirt

\* if hasVirtHandler(id)   (the read under virtHandlerLock.RLock)
hasVirtHandler(p) ==
    /\ vpc[p] = "has"
    /\ vpc' = [vpc EXCEPT ![p] = IF vheap[p].id \in DOMAIN virtHandlerMap THEN "existing" ELSE "set"]
    /\ UNCHANGED << virtHandlerMap, handlerMap, vheap, vret >>
    /\ UNCHANGED notVirt

\* The Go runtime stops the program when it finds a map written while it is
\* read or written elsewhere: every goroutine ends there.
Fatal == [c \in Callers |-> "fatal"]

\* return virtHandlerMap[id]   (read without the lock: while another goroutine
\* is about to write the map the read is a data race, which either yields the
\* entry or is caught by the runtime)
ReturnExisting(p) ==
    /\ vpc[p] = "existing"
    /\ \/ /\ vret' = [vret EXCEPT ![p] = Lookup(virtHandlerMap, vheap[p].id)]
          /\ vpc' = [vpc EXCEPT ![p] = "done"]
       \/ /\ \E q \in Callers \ {p} : vpc[q] = "set"
          /\ vpc' = Fatal
          /\ UNCHANGED vret
    /\ UNCHANGED << virtHandlerMap, handlerMap, vheap >>
    /\ UNCHANGED notVirt

\* setVirtHandler(v)   (under virtHandlerLock.Lock)
setVirtHandler(p) ==
    /\ vpc[p] = "set"
    /\ virtHandlerMap' = (vheap[p].id :> p) @@ virtHandlerMap
    /\ vpc' = [vpc EXCEPT ![p] = "setHandlerMap"]
    /\ UNCHANGED << handlerMap, vheap, vret >>
    /\ UNCHANGED notVirt

\* setHandlerMap(id, handlerfunc); return v   (written without a lock: two
\* goroutines writing handlerMap at once race, which either stores both entries
\* or is caught by the runtime)
setHandlerMap(p) ==
    /\ vpc[p] = "setHandlerMap"
    /\ \/ /\ handlerMap' = (vheap[p].id :> vheap[p].handlerfunc) @@ handlerMap
          /\ vret' = [vret EXCEPT ![p] = p]
          /\ vpc' = [vpc EXCEPT ![p] = "done"]
       \/ /\ \E q \in Callers \ {p} : vpc[q] = "setHandlerMap"
          /\ vpc' = Fatal
          /\ UNCHANGED << handlerMap, vret >>
    /\ UNCHANGED << virtHandlerMap, vheap >>
    /\ UNCHANGED notVirt

\* The map access a goroutine at statement at makes next: which map, and
\* whether it writes.
MapAccess(at) ==
    CASE at = "has" -> [map |-> "virtHandlerMap", write |-> FALSE]
      [] at = "existing" -> [map |-> "virtHandlerMap", write |-> FALSE]
      [] at = "set" -> [map |-> "virtHandlerMap", write |-> TRUE]
      [] at = "setHandlerMap" -> [map |-> "handlerMap", write |-> TRUE]
      [] OTHER -> [map |-> "none", write |-> FALSE]

\* How virtHandlerLock is held while that access is made: hasVirtHandler takes
\* RLock, setVirtHandler takes Lock, the other two accesses take nothing.
LockHeld(at) ==
    CASE at = "has" -> "read"
      [] at = "set" -> "write"
      [] OTHER -> "none"

VirtNext ==
    \E p \in Callers :
        \/ \E h \in VirtHandlerFuncs, x \in VirtPrefixes, ms \in VirtMethods, d \in VirtDescriptions :
              NewVirtHandler(p, h, x, ms, d, << >>, << >>)
        \/ hasVirtHandler(p)
        \/ ReturnExisting(p)
        \/ setVirtHandler(p)
        \/ setHandlerMap(p)

\* Calls made one after another, with every argument varied.
VirtSeqNext ==
    \E p \in Callers :
        \/ \E x \in VirtPrefixes, ms \in VirtMethods, d \in VirtDescriptions,
              pr \in VirtProduces, ps \in VirtParams :
              NewVirtHandler(p, f, x, ms, d, pr, ps)
        \/ hasVirtHandler(p)
        \/ ReturnExisting(p)
        \/ setVirtHandler(p)
        \/ setHandlerMap(p)

(***************************************************************************)
(* Server.ServeHTTP and the five sync.Pools of the Server.                 *)
(***************************************************************************)
Workers == 1..NumWorkers

\* The fields of the pool struct.
PoolFields == {"request", "response", "requestHeader", "responseHeader", "url"}

\* A wrapper instance is known by the New that made it and the cycle it was made for.
NoWrapper == [kind |-> "none", n |-> 0]

\* &Request{}, &Response{...}, ...: a wrapper no reset has bound yet.
Unbound == [ctx |-> Nil, header |-> NoWrapper, url |-> NoWrapper]

\* a Get that hands an instance out and leaves it in the pool
TakeKept(b, x) == b

\* sync.Pool.Get taking a pooled instance out of the pool
Take(b, x) == b (-) SetToBag({x})

\* sync.Pool.Put
Give(b, x) == b (+) SetToBag({x})

\* The handler WithConfig installs and the one SetHandler puts in its place.
SetHandler(h) == h

\* SetLogger(l): s.logger = l
SetLogger(l) == l

\* The logger WithConfig sets, and one given by SetLogger.
Loggers == {"GlobalLogger", SetLogger("l")}

\* WithConfig, and the calls of SetHandler and SetLogger made before serving:
\* the Server dispatches with handler h and logger l.
HandlerStart(h, l) ==
    /\ sHandler = h
    /\ logger = l
    /\ logged = [w \in Workers |-> << >>]

HandlerIdle ==
    /\ sHandler = "fallback"
    /\ logger = "GlobalLogger"
    /\ logged = [w \in Workers |-> << >>]

ServeStart ==
    /\ pool = [k \in PoolFields |-> EmptyBag]
    /\ wrappers = << >>
    /\ held = [w \in Workers |-> [k \in PoolFields |-> NoWrapper]]
    /\ spc = [w \in Workers |-> "idle"]
    /\ puts = [w \in Workers |-> << >>]

ServeIdle ==
    /\ pool = [k \in PoolFields |-> EmptyBag]
    /\ wrappers = << >>
    /\ held = [w \in Workers |-> [k \in PoolFields |-> NoWrapper]]
    /\ spc = [w \in Workers |-> "done"]
    /\ puts = [w \in Workers |-> << >>]

\* s.pool.<k>.Get(): any instance the pool holds, or a new one from New (a
\* sync.Pool may drop what it holds, so New can run while instances are pooled).
\* A cycle takes one instance from each pool, so the instance New makes for
\* cycle w is known by w.
PoolGet(w, k) ==
    \/ \E x \in BagToSet(pool[k]) :
            /\ pool' = [pool EXCEPT ![k] = Take(@, x)]
            /\ held' = [held EXCEPT ![w][k] = x]
            /\ UNCHANGED wrappers
    \/ LET x == [kind |-> k, n |-> w]
       IN /\ wrappers' = (x :> Unbound) @@ wrappers
          /\ held' = [held EXCEPT ![w][k] = x]
          /\ UNCHANGED pool

\* s.pool.<k>.Put(x)
PoolPut(w, k, x) ==
    /\ pool' = [pool EXCEPT ![k] = Give(@, x)]
    /\ puts' = [puts EXCEPT ![w] = Append(@, << k, x >>)]

\* rq := s.pool.request.Get().(*Request)
\* Workers are interchangeable: worker w runs the w-th cycle begun.
GetRequest(w) ==
    /\ spc[w] = "idle"
    /\ \A v \in 1..(w - 1) : spc[v] # "idle"
    /\ PoolGet(w, "request")
    /\ spc' = [spc EXCEPT ![w] = "getRequestHeader"]
    /\ UNCHANGED puts
    /\ UNCHANGED serveFrame

\* rqHdr := s.pool.requestHeader.Get().(*RequestHeader)
GetRequestHeader(w) ==
    /\ spc[w] = "getRequestHeader"
    /\ PoolGet(w, "requestHeader")
    /\ spc' = [spc EXCEPT ![w] = "getURL"]
    /\ UNCHANGED puts
    /\ UNCHANGED serveFrame

\* rqURL := s.pool.url.Get().(*URL)
GetURL(w) ==
    /\ spc[w] = "getURL"
    /\ PoolGet(w, "url")
    /\ spc' = [spc EXCEPT ![w] = "resetRequest"]
    /\ UNCHANGED puts
    /\ UNCHANGED serveFrame

\* x.reset(...): the wrapper is bound to the native context c it is given (or
\* to a part of it) and to the header and URL wrappers it is given; whatever it
\* held before is gone.
Reset(c, hdr, u) == [ctx |-> c, header |-> hdr, url |-> u]

\* rqHdr.reset(&c.Request.Header); rqURL.reset(c.URI()); rq.reset(c, rqHdr, rqURL)
\* The native context c of worker w is known by w.
ResetRequest(w) ==
    /\ spc[w] = "resetRequest"
    /\ wrappers' = [wrappers EXCEPT
            ![held[w]["requestHeader"]] = Reset(w, NoWrapper, NoWrapper),
            ![held[w]["url"]] = Reset(w, NoWrapper, NoWrapper),
            ![held[w]["request"]] = Reset(w, held[w]["requestHeader"], held[w]["url"])]
    /\ spc' = [spc EXCEPT ![w] = "getResponse"]
    /\ UNCHANGED << pool, held, puts >>
    /\ UNCHANGED serveFrame

\* rs := s.pool.response.Get().(*Response)
GetResponse(w) ==
    /\ spc[w] = "getResponse"
    /\ PoolGet(w, "response")
    /\ spc' = [spc EXCEPT ![w] = "getResponseHeader"]
    /\ UNCHANGED puts
    /\ UNCHANGED serveFrame

\* A ServeHTTP that calls the handler before the response wrappers are reset.
GetResponseHeaderUnreset(w) ==
    /\ spc[w] = "getResponseHeader"
    /\ PoolGet(w, "responseHeader")
    /\ spc' = [spc EXCEPT ![w] = "handler"]
    /\ UNCHANGED puts
    /\ UNCHANGED serveFrame

\* rsHdr := s.pool.responseHeader.Get().(*ResponseHeader)
GetResponseHeader(w) ==
    /\ spc[w] = "getResponseHeader"
    /\ PoolGet(w, "responseHeader")
    /\ spc' = [spc EXCEPT ![w] = "resetResponse"]
    /\ UNCHANGED puts
    /\ UNCHANGED serveFrame

\* rsHdr.reset(&c.Response.Header); rs.reset(c, rsHdr)
ResetResponse(w) ==
    /\ spc[w] = "resetResponse"
    /\ wrappers' = [wrappers EXCEPT
            ![held[w]["responseHeader"]] = Reset(w, NoWrapper, NoWrapper),
            ![held[w]["response"]] = Reset(w, held[w]["responseHeader"], NoWrapper)]
    /\ spc' = [spc EXCEPT ![w] = "handler"]
    /\ UNCHANGED << pool, held, puts >>
    /\ UNCHANGED serveFrame

\* How a call of a handler given by SetHandler can end: it returns, with or
\* without an application error, or it panics.
HandlerOutcomes == {"returned", "returnedError", "panicked"}

\* A fallback that records nothing.
FallbackSilent(log, l) == log

\* The handler WithConfig installs:
\* s.logger.Error("handler not set, use `SetHandler()` to set it.")
Fallback(log, l) == Append(log, l)

\* s.handler.ServeHTTP(rq, rs).  The fallback records its error and returns.  A
\* handler given by SetHandler has no result either, so ServeHTTP goes on the
\* same way after an application error as without one; when it panics
\* ServeHTTP unwinds, and ServeHTTP defers nothing.
HandlerCall(w) ==
    /\ spc[w] = "handler"
    /\ IF sHandler = "fallback"
       THEN /\ logged' = [logged EXCEPT ![w] = Fallback(@, logger)]
            /\ spc' = [spc EXCEPT ![w] = "putRequest"]
       ELSE /\ \E o \in HandlerOutcomes :
                  spc' = [spc EXCEPT ![w] = IF o = "panicked" THEN "panicked" ELSE "putRequest"]
            /\ UNCHANGED logged
    /\ UNCHANGED << pool, wrappers, held, puts, sHandler, logger >>
    /\ UNCHANGED notServe

\* s.pool.request.Put(rq)
PutRequest(w) ==
    /\ spc[w] = "putRequest"
    /\ PoolPut(w, "request", held[w]["request"])
    /\ spc' = [spc EXCEPT ![w] = "putRequestHeader"]
    /\ UNCHANGED << wrappers, held >>
    /\ UNCHANGED serveFrame

\* s.pool.requestHeader.Put(rqHdr)
PutRequestHeader(w) ==
    /\ spc[w] = "putRequestHeader"
    /\ PoolPut(w, "requestHeader", held[w]["requestHeader"])
    /\ spc' = [spc EXCEPT ![w] = "putURL"]
    /\ UNCHANGED << wrappers, held >>
    /\ UNCHANGED serveFrame

\* s.pool.url.Put(rqURL)
PutURL(w) ==
    /\ spc[w] = "putURL"
    /\ PoolPut(w, "url", held[w]["url"])
    /\ spc' = [spc EXCEPT ![w] = "putResponse"]
    /\ UNCHANGED << wrappers, held >>
    /\ UNCHANGED serveFrame

\* s.pool.response.Put(rs)
PutResponse(w) ==
    /\ spc[w] = "putResponse"
    /\ PoolPut(w, "response", held[w]["response"])
    /\ spc' = [spc EXCEPT ![w] = "putResponseHeader"]
    /\ UNCHANGED << wrappers, held >>
    /\ UNCHANGED serveFrame

\* s.pool.responseHeader.Put(rsHdr)
PutResponseHeader(w) ==
    /\ spc[w] = "putResponseHeader"
    /\ PoolPut(w, "responseHeader", held[w]["responseHeader"])
    /\ spc' = [spc EXCEPT ![w] = "done"]
    /\ UNCHANGED << wrappers, held >>
    /\ UNCHANGED serveFrame

ServeNext ==
    \E w \in Workers :
        \/ GetRequest(w)
        \/ GetRequestHeader(w)
        \/ GetURL(w)
        \/ ResetRequest(w)
        \/ GetResponse(w)
        \/ GetResponseHeader(w)
        \/ ResetResponse(w)
        \/ HandlerCall(w)
        \/ PutRequest(w)
        \/ PutRequestHeader(w)
        \/ PutURL(w)
        \/ PutResponse(w)
        \/ PutResponseHeader(w)

(***************************************************************************)
(* Server.Start: the serving mode chosen from the configuration.           *)
(***************************************************************************)
\* c.Listener == nil
NoListener == "nil"

\* The configurations a Server is made with.
Configs ==
    [Address : {":80", ":443"},
     Listener : {NoListener, "ln"},
     TLSCertfile : {"", "cert.pem", "other.pem"},
     TLSKeyfile : {"", "key.pem"}]

\* What a listen/serve call of the embedded fasthttp.Server can return.
ServeErrors == {"nil", "address in use", "bad certificate"}

\* A Start that takes one TLS path for enough.
UseTLSEither(c) == c.TLSCertfile # "" \/ c.TLSKeyfile # ""

\* c.TLSCertfile != "" && c.TLSKeyfile != ""
UseTLS(c) == c.TLSCertfile # "" /\ c.TLSKeyfile # ""

StartBegin ==
    /\ config \in Configs
    /\ stpc = "Start"
    /\ served = << >>
    /\ startRet = "none"

StartIdle ==
    /\ config = << >>
    /\ stpc = "done"
    /\ served = << >>
    /\ startRet = "none"

\* if s.config.Listener == nil { return s.startDefaultListener() }
\* return s.startCustomListener()
Start ==
    /\ stpc = "Start"
    /\ stpc' = IF config.Listener = NoListener THEN "startDefaultListener"
                                               ELSE "startCustomListener"
    /\ UNCHANGED << config, served, startRet >>
    /\ UNCHANGED notStart

\* One listen/serve call, and Start returning what it returned.
ServeCall(fn, args) ==
    \E err \in ServeErrors :
        /\ served' = Append(served, [fn |-> fn, args |-> args, err |-> err])
        /\ startRet' = err
        /\ stpc' = "done"

\* return s.ListenAndServeTLS(c.Address, c.TLSCertfile, c.TLSKeyfile), or
\* return s.ListenAndServe(c.Address)
startDefaultListener ==
    /\ stpc = "startDefaultListener"
    /\ IF UseTLS(config)
       THEN ServeCall("ListenAndServeTLS",
                      << config.Address, config.TLSCertfile, config.TLSKeyfile >>)
       ELSE ServeCall("ListenAndServe", << config.Address >>)
    /\ UNCHANGED config
    /\ UNCHANGED notStart

\* return s.ServeTLS(c.Listener, c.TLSCertfile, c.TLSKeyfile), or
\* return s.Serve(c.Listener)
startCustomListener ==
    /\ stpc = "startCustomListener"
    /\ IF UseTLS(config)
       THEN ServeCall("ServeTLS",
                      << config.Listener, config.TLSCertfile, config.TLSKeyfile >>)
       ELSE ServeCall("Serve", << config.Listener >>)
    /\ UNCHANGED config
    /\ UNCHANGED notStart

StartNext == Start \/ startDefaultListener \/ startCustomListener

(***************************************************************************)
(* WrapHandler and WrapMiddleware: one call of the handler they return.    *)
(***************************************************************************)
\* What the native handler h can leave in ctx.Response.
StatusCodes == {200, 404, 500}
ContentLengths == {-1, 0, 7}

\* What next(c) can return.
NextResults == {"nil", "error"}

\* int64(n) of an int: the value is kept.
Int64(n) == n

\* A copy-back that leaves the size as it was.
CopyBackStatusOnly(rs, c) == [rs EXCEPT !.status = c.status]

\* rs.status = ctx.Response.StatusCode()
\* rs.size = int64(ctx.Response.Header.ContentLength())
CopyBack(rs, c) == [status |-> c.status, size |-> Int64(c.contentLength)]

WrapBegin ==
    /\ wkind \in {"WrapHandler", "WrapMiddleware"}
    /\ wctx \in [id : {1, 2}, status : {200}, contentLength : {0}]
    /\ wrs \in {[status |-> 0, size |-> 0], [status |-> 404, size |-> 7]}
    /\ wtrace = << >>
    /\ wpc = "h"
    /\ wret = "none"

WrapIdle ==
    /\ wkind = "none"
    /\ wctx = << >>
    /\ wrs = << >>
    /\ wtrace = << >>
    /\ wpc = "done"
    /\ wret = "none"

\* rq := c.Request().(*Request); rs := c.Response().(*Response)
\* ctx := rq.RequestCtx; h(ctx)
CallNative ==
    /\ wpc = "h"
    /\ \E st \in StatusCodes, n \in ContentLengths :
          /\ wctx' = [wctx EXCEPT !.status = st, !.contentLength = n]
          /\ wtrace' = Append(wtrace, [call |-> "h", ctx |-> wctx.id,
                                       status |-> st, contentLength |-> n])
    /\ wpc' = "copy"
    /\ UNCHANGED << wkind, wrs, wret >>
    /\ UNCHANGED notWrap

\* The copy-back; WrapHandler's handler then returns nil.
CopyBackStep ==
    /\ wpc = "copy"
    /\ wrs' = CopyBack(wrs, wctx)
    /\ wtrace' = Append(wtrace, [call |-> "copy", ctx |-> wctx.id])
    /\ IF wkind = "WrapHandler"
       THEN wpc' = "done" /\ wret' = "nil"
       ELSE wpc' = "next" /\ UNCHANGED wret
    /\ UNCHANGED << wkind, wctx >>
    /\ UNCHANGED notWrap

\* return next(c): the rest of the chain can write the native response again.
CallNext ==
    /\ wpc = "next"
    /\ \E st \in StatusCodes, n \in ContentLengths :
          wctx' = [wctx EXCEPT !.status = st, !.contentLength = n]
    /\ \E r \in NextResults :
          /\ wtrace' = Append(wtrace, [call |-> "next", ctx |-> wctx.id, result |-> r])
          /\ wret' = r
    /\ wpc' = "done"
    /\ UNCHANGED << wkind, wrs >>
    /\ UNCHANGED notWrap

WrapNext == CallNative \/ CopyBackStep \/ CallNext

(***************************************************************************)
(* Reg() called by several goroutines on one declared ApiHandler value,    *)
(* init() statement by statement.  Reg() has a value receiver: each call   *)
(* works on its own copy of the struct, lock included, and the copies      *)
(* share the arrays behind Types and Params.                               *)
(***************************************************************************)
Sharers == 1..NumSharers

\* The values declared: every Types list over two types, one path parameter.
SharedInputs ==
    {NewApiHandler(f, desc, t, << NewParam(id, PATH, FALSE) >>) :
        t \in SeqsUpTo({GET, POST}, MaxTypes)}

SharedStart ==
    /\ declared \in SharedInputs
    /\ copies = << >>
    /\ shpc = [p \in Sharers |-> "idle"]

SharedIdle ==
    /\ declared = << >>
    /\ copies = << >>
    /\ shpc = [p \in Sharers |-> "done"]

\* The statements of init() between a.lock.Lock() and the deferred Unlock().
InInit == {"initTypes", "initParamsAndSuffix", "initId"}

\* a.Reg(): the receiver is copied; a.lock.Lock() takes the lock of the copy,
\* which is free; a.inited is false in the copy, as it is in the declared
\* value, which no statement writes.
\* Goroutines are interchangeable: goroutine p makes the p-th call begun.
RegCopy(p) ==
    /\ shpc[p] = "idle"
    /\ \A q \in 1..(p - 1) : shpc[q] # "idle"
    /\ copies' = (p :> declared) @@ copies
    /\ shpc' = [shpc EXCEPT ![p] = IF declared.inited THEN "done" ELSE "initTypes"]
    /\ UNCHANGED declared
    /\ UNCHANGED notShared

\* a.initTypes(): a non-empty a.Types is sorted and deduplicated in the array
\* of the declared value; an empty one is replaced by a new array.
SharedInitTypes(p) ==
    /\ shpc[p] = "initTypes"
    /\ LET a == [copies[p] EXCEPT !.Types = SubSeq(declared.Types, 1, Len(@))]
           r == initTypesRun(a)
       IN /\ copies' = [copies EXCEPT ![p] = initTypes(a)]
          /\ declared' = IF Len(a.Types) > 0 THEN [declared EXCEPT !.Types = r.arr]
                                             ELSE declared
    /\ shpc' = [shpc EXCEPT ![p] = "initParamsAndSuffix"]
    /\ UNCHANGED notShared

\* a.initParamsAndSuffix(): Required is written in the array of the declared value.
SharedInitParamsAndSuffix(p) ==
    /\ shpc[p] = "initParamsAndSuffix"
    /\ LET a == initParamsAndSuffix([copies[p] EXCEPT !.Params = declared.Params])
       IN /\ copies' = [copies EXCEPT ![p] = a]
          /\ declared' = [declared EXCEPT !.Params = a.Params]
    /\ shpc' = [shpc EXCEPT ![p] = "initId"]
    /\ UNCHANGED notShared

\* a.initId(); a.inited = true: a.Types is read from the shared array again.
SharedInitId(p) ==
    /\ shpc[p] = "initId"
    /\ LET a == IF Len(declared.Types) > 0
                THEN [copies[p] EXCEPT !.Types = SubSeq(declared.Types, 1, Len(@))]
                ELSE copies[p]
       IN copies' = [copies EXCEPT ![p] = [initId(a) EXCEPT !.inited = TRUE]]
    /\ shpc' = [shpc EXCEPT ![p] = "done"]
    /\ UNCHANGED declared
    /\ UNCHANGED notShared

SharedNext ==
    \E p \in Sharers :
        \/ RegCopy(p)
        \/ SharedInitTypes(p)
        \/ SharedInitParamsAndSuffix(p)
        \/ SharedInitId(p)

(***************************************************************************)
(* Specifications.                                                         *)
(***************************************************************************)
\* Concurrent Reg() calls.
Init == SharedIdle /\ WrapIdle /\ HandlerIdle /\ StartIdle /\ ServeIdle /\ VirtIdle /\ RegStart(FALSE) /\ InitIdle /\ PrefixIdle
Spec == Init /\ [][RegNext]_vars

\* Reg() calls one after another.
InitSeq == SharedIdle /\ WrapIdle /\ HandlerIdle /\ StartIdle /\ ServeIdle /\ VirtIdle /\ RegStart(TRUE) /\ InitIdle /\ PrefixIdle
SpecSeq == InitSeq /\ [][RegNext]_vars

\* init() on one declared value.
InitNil == SharedIdle /\ WrapIdle /\ HandlerIdle /\ StartIdle /\ ServeIdle /\ VirtIdle /\ RegStart(TRUE) /\ InitIdle /\ PrefixIdle
SpecNil == InitNil /\ [][RegNilNext]_vars

InitPair == SharedIdle /\ WrapIdle /\ HandlerIdle /\ StartIdle /\ ServeIdle /\ VirtIdle /\ PairStart /\ InitIdle /\ PrefixIdle
SpecPair == InitPair /\ [][PairNext]_vars

InitInit == SharedIdle /\ WrapIdle /\ HandlerIdle /\ StartIdle /\ ServeIdle /\ VirtIdle /\ RegIdle /\ PrefixIdle /\ InitStart
SpecInit == InitInit /\ [][InitNext]_vars

\* creatPrefix on one raw prefix.
InitPrefix == SharedIdle /\ WrapIdle /\ HandlerIdle /\ StartIdle /\ ServeIdle /\ VirtIdle /\ RegIdle /\ InitIdle /\ PrefixStart
SpecPrefix == InitPrefix /\ [][PrefixNext]_vars

\* Concurrent NewVirtHandler calls.
InitVirt == SharedIdle /\ WrapIdle /\ HandlerIdle /\ StartIdle /\ ServeIdle /\ RegIdle /\ InitIdle /\ PrefixIdle /\ VirtStart
SpecVirt == InitVirt /\ [][VirtNext]_vars

\* NewVirtHandler calls made one after another.
InitVirtSeq ==
    /\ SharedIdle /\ WrapIdle /\ HandlerIdle /\ StartIdle /\ ServeIdle /\ InitIdle /\ PrefixIdle
    /\ RegStart(TRUE) /\ VirtStart
SpecVirtSeq == InitVirtSeq /\ [][VirtSeqNext]_vars

\* Concurrent ServeHTTP dispatch cycles on one Server.
InitServe ==
    /\ SharedIdle /\ WrapIdle /\ StartIdle /\ RegIdle /\ InitIdle /\ PrefixIdle /\ VirtIdle
    /\ HandlerStart(SetHandler("custom"), "GlobalLogger") /\ ServeStart
SpecServe == InitServe /\ [][ServeNext]_vars

\* Dispatch on a Server on which SetHandler was never called.
InitFallback ==
    /\ SharedIdle /\ WrapIdle /\ StartIdle /\ RegIdle /\ InitIdle /\ PrefixIdle /\ VirtIdle
    /\ \E l \in Loggers : HandlerStart("fallback", l)
    /\ ServeStart
SpecFallback == InitFallback /\ [][ServeNext]_vars

\* Concurrent Reg() calls on one declared value.
InitShared ==
    /\ WrapIdle /\ HandlerIdle /\ StartIdle /\ RegIdle /\ InitIdle /\ PrefixIdle
    /\ VirtIdle /\ ServeIdle
    /\ SharedStart
SpecShared == InitShared /\ [][SharedNext]_vars

\* One call of a handler made by WrapHandler or WrapMiddleware.
InitWrap ==
    /\ SharedIdle /\ HandlerIdle /\ StartIdle /\ RegIdle /\ InitIdle /\ PrefixIdle /\ VirtIdle /\ ServeIdle
    /\ WrapBegin
SpecWrap == InitWrap /\ [][WrapNext]_vars

\* Server.Start on every configuration.
InitStartServer ==
    SharedIdle /\ WrapIdle /\ HandlerIdle /\ RegIdle /\ InitIdle /\ PrefixIdle /\ VirtIdle /\ ServeIdle /\ StartBegin
SpecStart == InitStartServer /\ [][StartNext]_vars

(***************************************************************************)
(* Properties of the operation registry.                                   *)
(***************************************************************************)
\* Calls p and q were made on the same logical declaration: declared values with
\* the same Handler, Desc, Types and Params.
SameDeclaration(p, q) ==
    /\ arg[p].decl # Nil /\ arg[q].decl # Nil
    /\ Declarations[arg[p].decl] = Declarations[arg[q].decl]

\* The number of entries of DefLessgo.apiHandlers whose id is k.
Listed(k) == Cardinality({i \in 1..Len(apiHandlers) : heap[apiHandlers[i]].id = k})

\* C1: concurrent Reg() calls on the same logical declaration all return the
\* same descriptor, that descriptor is the one apiHandlerMap stores under the
\* derived id, and DefLessgo.apiHandlers holds exactly one entry with that id.
C1_ConcurrentRegConverges ==
    \A p, q \in Procs :
        (pc[p] = "done" /\ pc[q] = "done" /\ SameDeclaration(p, q))
            => /\ ret[p] = ret[q]
               /\ getApiHandler(heap[p].id) = ret[p]
               /\ Listed(heap[p].id) = 1

\* The ids of the list l of descriptors of h never decrease, left to right.
Sorted(l, h) == \A i \in 1..(Len(l) - 1) : ~StrLess(h[l[i + 1]].id, h[l[i]].id)

ApiHandlersSorted == Sorted(apiHandlers, heap)

\* new is old with one descriptor put in at index i, every entry before it not
\* greater and the entry after it strictly greater (h: the descriptors).
InsertedInPlace(old, new, h) ==
    \E i \in 1..(Len(old) + 1) :
        /\ Len(new) = Len(old) + 1
        /\ \A j \in 1..(i - 1) : new[j] = old[j]
        /\ \A j \in i..Len(old) : new[j + 1] = old[j]
        /\ \A j \in 1..(i - 1) : ~StrLess(h[new[i]].id, h[old[j]].id)
        /\ i <= Len(old) => StrLess(h[new[i]].id, h[old[i]].id)

\* C4: in every reachable state, under sequential or interleaved Reg() calls,
\* the ids of DefLessgo.apiHandlers are in non-decreasing lexical order, and
\* every change of the list puts one new descriptor immediately before the first
\* existing entry with a strictly greater id (at the end when there is none),
\* leaving the existing entries in their order.
C4_OrderedInsertion ==
    [][apiHandlers' # apiHandlers =>
          /\ Sorted(apiHandlers', heap')
          /\ InsertedInPlace(apiHandlers, apiHandlers', heap')]_vars

\* Three descriptors are listed, two of them stored under one id by racing
\* calls, and the descriptor of the call begun last stands before one of a call
\* begun earlier.
C4_Witness ==
    /\ Len(apiHandlers) = 3
    /\ heap[apiHandlers[1]].id = heap[apiHandlers[2]].id
    /\ apiHandlers[3] < NumProcs
    /\ NumProcs \in {apiHandlers[1], apiHandlers[2]}

\* The growth of the registry over call p, in a sequential run.
Growth(p) ==
    [nmap |-> calls[p].after.nmap - calls[p].before.nmap,
     nlist |-> calls[p].after.nlist - calls[p].before.nlist]

Grew(n) == [nmap |-> n, nlist |-> n]

\* Call p is a repeat: an earlier call had the same logical declaration, or p
\* was made on a descriptor that an earlier call returned.
IsRepeat(p) == arg[p].obj # Nil \/ \E q \in 1..(p - 1) : SameDeclaration(p, q)

\* Every finished call of a sequential run returned the descriptor of the first
\* call with its logical declaration (a call on a returned descriptor: that
\* descriptor), and a repeat left the sizes of the map and the list alone.
SequentialRepeats ==
    \A p \in Procs :
        pc[p] = "done" =>
            /\ ret[p] # Nil
            /\ \A q \in 1..(p - 1) : SameDeclaration(p, q) => ret[p] = ret[q]
            /\ arg[p].obj # Nil => ret[p] = arg[p].obj
            /\ IsRepeat(p) => Growth(p) = Grew(0)

\* C3 as stated: in a sequential run every call with an identical logical
\* declaration returns the instance of the first such call, and the map and the
\* list grow by exactly one for the first call of each distinct declaration and
\* by zero for every repeat.
C3_SequentialRegAsStated ==
    /\ SequentialRepeats
    /\ \A p \in Procs : (pc[p] = "done" /\ ~IsRepeat(p)) => Growth(p) = Grew(1)

\* C3 as amended: ... the map and the list grow by exactly one for the first
\* call that derives an id the registry does not hold yet and by zero for every
\* other call, hence by at most one for the first call of each distinct
\* declaration.
C3_SequentialReg ==
    /\ SequentialRepeats
    /\ \A p \in Procs :
          pc[p] = "done" =>
              Growth(p) = IF heap[p].id \in calls[p].ids0 THEN Grew(0) ELSE Grew(1)

\* The second call repeated the declaration of the first, written as another
\* value, and the third was made on the descriptor they returned.
C3_Witness ==
    /\ \A p \in Procs : pc[p] = "done"
    /\ SameDeclaration(1, 2) /\ arg[1].decl # arg[2].decl
    /\ ret[2] = ret[1]
    /\ arg[3].obj = ret[1] /\ ret[3] = ret[1]

(***************************************************************************)
(* Properties of init().                                                   *)
(***************************************************************************)
Range(s) == {s[i] : i \in 1..Len(s)}

NoDuplicates(s) == \A i, j \in 1..Len(s) : i # j => s[i] # s[j]

TypesDone == ipc \in {"initParamsAndSuffix", "initId", "done"}

\* C5: with an empty declared Types list the descriptor's Types is the full
\* standard set and its methods hold the method token of each of the nine
\* types: the methods are those of a declaration that lists all nine.
C5_EmptyTypesDefault ==
    (TypesDone /\ given.Types = << >>) =>
        /\ self.Types = AllTypes
        /\ \A i \in 1..Len(AllTypes) : GetMethodFromType(AllTypes[i]) \in Range(self.methods)
        /\ self.methods = initTypes(NewApiHandler(given.Handler, given.Desc, AllTypes, << >>)).methods

\* C6: for a non-empty declared Types list, after initTypes the Types are
\* strictly ascending, methods[i] = GetMethodFromType(Types[i]) for every i, and
\* no method occurs twice; ["GET","get","POST"] resolves to GET and POST.
C6_TypesNormalized ==
    (TypesDone /\ given.Types # << >>) =>
        /\ \A i \in 1..(Len(self.Types) - 1) : StrLess(self.Types[i], self.Types[i + 1])
        /\ Len(self.methods) = Len(self.Types)
        /\ \A i \in 1..Len(self.Types) : self.methods[i] = GetMethodFromType(self.Types[i])
        /\ NoDuplicates(self.methods)
        /\ given.Types = << GET, get, POST >> => self.methods = << GET, POST >>

ParamsDone == ipc \in {"initId", "done"}

\* The names of the path parameters of a list, in the order of the list.
RECURSIVE PathNames(_)
PathNames(ps) ==
    IF ps = << >> THEN << >>
    ELSE IF Head(ps).In = PATH THEN << Head(ps).Name >> \o PathNames(Tail(ps))
    ELSE PathNames(Tail(ps))

\* C7: initParamsAndSuffix sets suffix to the concatenation of "/:" + Name over
\* the path parameters in declared order, sets Required on every path
\* parameter, and leaves every other field of every parameter, every non-path
\* parameter, and the order and length of the list as declared.
C7_ParamsAndSuffix ==
    ParamsDone =>
        /\ self.suffix = Concat([i \in 1..Len(PathNames(given.Params)) |->
                                 << "/", ":" >> \o PathNames(given.Params)[i]])
        /\ Len(self.Params) = Len(given.Params)
        /\ \A i \in 1..Len(given.Params) :
              IF given.Params[i].In = PATH
              THEN self.Params[i] = [given.Params[i] EXCEPT !.Required = TRUE]
              ELSE self.Params[i] = given.Params[i]

\* Params = [{id, path}, {n, query}], neither flagged: the suffix is "/:id", the
\* path parameter has become required and the query parameter has not.
C7_Witness ==
    /\ ParamsDone
    /\ given.Params = << NewParam(id, PATH, FALSE), NewParam(nm, QUERY, FALSE) >>
    /\ self.suffix = << "/", ":", "i", "d" >>
    /\ self.Params[1].Required /\ ~self.Params[2].Required

(***************************************************************************)
(* Properties of creatPrefix.                                              *)
(***************************************************************************)
\* The marker "/:" stands at index i of s.
MarkerAt(s, i) == i + 1 <= Len(s) /\ s[i] = "/" /\ s[i + 1] = ":"

HasMarker(s) == \E i \in 1..Len(s) : MarkerAt(s, i)

Parts(c, pp, pq) == [cleanPrefix |-> c, prefixPath |-> pp, prefixParam |-> pq]

\* C8: creatPrefix returns (cleanPrefix, prefixPath, prefixParam) with
\* prefixPath + prefixParam = cleanPrefix; prefixPath holds no "/:"; prefixParam
\* is empty or begins with "/:" at the first marker of cleanPrefix; without a
\* marker prefixParam is empty and prefixPath = cleanPrefix; cleanPrefix begins
\* with "/" and holds no "?".  "/users/:id/posts" gives ("/users/:id/posts",
\* "/users", "/:id/posts") and "users" gives ("/users", "/users", "").
C8_PrefixDecomposition ==
    ppc = "done" =>
        LET c == prefixParts.cleanPrefix
            pp == prefixParts.prefixPath
            pq == prefixParts.prefixParam
        IN /\ pp \o pq = c
           /\ ~HasMarker(pp)
           /\ pq = << >> \/ (MarkerAt(c, Len(pp) + 1) /\ \A i \in 1..Len(pp) : ~MarkerAt(c, i))
           /\ ~HasMarker(c) => (pq = << >> /\ pp = c)
           /\ c # << >> /\ c[1] = "/"
           /\ \A i \in 1..Len(c) : c[i] # "?"
           /\ rawPrefix = UsersIdPosts =>
                 prefixParts = Parts(UsersIdPosts, << "/" >> \o Users,
                                     << "/", ":", "i", "d", "/", "p", "o", "s", "t", "s" >>)
           /\ rawPrefix = Users =>
                 prefixParts = Parts(<< "/" >> \o Users, << "/" >> \o Users, << >>)

\* "/users/:id/posts" has been split at its marker.
C8_Witness ==
    /\ ppc = "done"
    /\ rawPrefix = UsersIdPosts
    /\ prefixParts.prefixPath = << "/" >> \o Users
    /\ HasMarker(prefixParts.prefixParam)

(***************************************************************************)
(* Properties of the prefix-bound registry.                                *)
(***************************************************************************)
\* GetVirtHandler(id): the descriptor stored under id, Nil when there is none.
GetVirtHandler(k) == Lookup(virtHandlerMap, k)

\* C2: concurrent NewVirtHandler calls that derive the same id all return the
\* same VirtHandler instance, and no caller ends up holding a descriptor that
\* GetVirtHandler(id) does not return: the entry stored for an id is not
\* replaced by another instance.
C2_ConcurrentVirtConverges ==
    \A p, q \in Callers :
        (vpc[p] = "done" /\ vpc[q] = "done" /\ vheap[p].id = vheap[q].id)
            => /\ vret[p] = vret[q]
               /\ GetVirtHandler(vheap[p].id) = vret[p]

(***************************************************************************)
(* Properties of the dispatch cycle.                                       *)
(***************************************************************************)
\* The cycle of worker w has ended, by returning or by a panic of the handler.
Exited(w) == spc[w] \in {"done", "panicked"}

\* The Put calls of cycle w that gave instance x back.
PutsOf(w, x) == { i \in DOMAIN puts[w] : puts[w][i][2] = x }

\* C9: every dispatch that has ended, whether the handler returned (with or
\* without an application error) or panicked, has put all five wrappers it
\* acquired back.
C9_ReleasedOnEveryExit ==
    \A w \in Workers :
        Exited(w) => \A k \in PoolFields : PutsOf(w, held[w][k]) # {}

\* Cycle w holds the instance it took from pool k: it is between Get and Put.
Holding(w, k) ==
    /\ held[w][k] # NoWrapper
    /\ PutsOf(w, held[w][k]) = {}
    /\ spc[w] # "panicked"

\* No instance is held by two cycles at once.
Exclusive ==
    \A w1, w2 \in Workers : \A k \in PoolFields :
        (w1 # w2 /\ Holding(w1, k) /\ Holding(w2, k)) => held[w1][k] # held[w2][k]

\* A cycle whose handler returned and which has finished put each of its five
\* instances back exactly once, into the pool it took it from.
PutBackOnce ==
    \A w \in Workers :
        spc[w] = "done" =>
            \A k \in PoolFields :
                /\ Cardinality(PutsOf(w, held[w][k])) = 1
                /\ \A i \in PutsOf(w, held[w][k]) : puts[w][i][1] = k

\* A pool holds only instances of its own kind, none of them twice and none
\* that a cycle is holding.
PoolsWellFormed ==
    \A k \in PoolFields : \A x \in BagToSet(pool[k]) :
        /\ x.kind = k
        /\ CopiesIn(x, pool[k]) = 1
        /\ \A w \in Workers : ~ (Holding(w, k) /\ held[w][k] = x)

\* C10: across concurrent dispatch cycles no wrapper instance is held by two
\* cycles at the same time, and a cycle whose handler returns puts each of its
\* five instances back exactly once into the pool it came from.
C10_PoolExclusivity == Exclusive /\ PutBackOnce /\ PoolsWellFormed

\* Two overlapping cycles: one is still holding its response header after
\* putting the other four back, the other has reused the first one's request
\* and is in the handler holding five instances of its own.
C10_Witness ==
    \E w1, w2 \in Workers :
        /\ w1 # w2
        /\ spc[w1] = "putResponseHeader"
        /\ spc[w2] = "handler"
        /\ held[w2]["request"] = held[w1]["request"]
        /\ Holding(w1, "responseHeader")
        /\ \A k \in PoolFields : Holding(w2, k)

(***************************************************************************)
(* Properties of Server.Start.                                             *)
(***************************************************************************)
\* The call the configuration asks for, case by case.
SelectedCall(c) ==
    IF c.Listener = NoListener
    THEN IF c.TLSCertfile = "" THEN [fn |-> "ListenAndServe", args |-> << c.Address >>]
         ELSE IF c.TLSKeyfile = "" THEN [fn |-> "ListenAndServe", args |-> << c.Address >>]
         ELSE [fn |-> "ListenAndServeTLS",
               args |-> << c.Address, c.TLSCertfile, c.TLSKeyfile >>]
    ELSE IF c.TLSCertfile = "" THEN [fn |-> "Serve", args |-> << c.Listener >>]
         ELSE IF c.TLSKeyfile = "" THEN [fn |-> "Serve", args |-> << c.Listener >>]
         ELSE [fn |-> "ServeTLS", args |-> << c.Listener, c.TLSCertfile, c.TLSKeyfile >>]

\* C11: when Start has returned it has made exactly one listen/serve call, the
\* one the configuration selects (TLS if and only if both TLS paths are set,
\* on the given listener if there is one and on Address otherwise), and it has
\* returned the error of that call unchanged.
C11_StartSelectsMode ==
    stpc = "done" /\ config \in Configs =>
        /\ Len(served) = 1
        /\ served[1].fn = SelectedCall(config).fn
        /\ served[1].args = SelectedCall(config).args
        /\ startRet = served[1].err

\* Start has returned an error from a plaintext call on a given listener with
\* only the certificate path set.
C11_Witness ==
    /\ stpc = "done"
    /\ config \in Configs
    /\ config.Listener # NoListener
    /\ config.TLSCertfile # "" /\ config.TLSKeyfile = ""
    /\ served # << >> /\ served[1].fn = "Serve"
    /\ startRet = "address in use"

(***************************************************************************)
(* Properties of dispatch to the fallback handler.                         *)
(***************************************************************************)
\* Cycle w is past its handler call.
PastHandler(w) ==
    spc[w] \in {"putRequest", "putRequestHeader", "putURL", "putResponse",
                "putResponseHeader", "done"}

\* What the resets of cycle w bound the wrapper it took from pool k to.
BoundByReset(w, k) ==
    IF k = "request"
    THEN [ctx |-> w, header |-> held[w]["requestHeader"], url |-> held[w]["url"]]
    ELSE IF k = "response"
    THEN [ctx |-> w, header |-> held[w]["responseHeader"], url |-> NoWrapper]
    ELSE [Unbound EXCEPT !.ctx = w]

\* C12: on a Server whose handler is the fallback, a dispatch that is past its
\* handler call has recorded exactly one error, through the logger the server
\* has, and the wrappers it still holds are as its resets left them; no dispatch
\* is aborted, and a finished one has put all five wrappers back.
C12_FallbackHandler ==
    sHandler = "fallback" =>
        \A w \in Workers :
            /\ spc[w] # "panicked"
            /\ logged[w] = IF PastHandler(w) THEN << logger >> ELSE << >>
            /\ PastHandler(w) =>
                  \A k \in PoolFields :
                      Holding(w, k) => wrappers[held[w][k]] = BoundByReset(w, k)
            /\ spc[w] = "done" => \A k \in PoolFields : PutsOf(w, held[w][k]) # {}

\* Two dispatches on a Server without a handler, with the logger given by
\* SetLogger: one has finished, the other is past the fallback and still holds
\* wrappers.
C12_Witness ==
    /\ sHandler = "fallback"
    /\ logger = SetLogger("l")
    /\ \E w1, w2 \in Workers :
          /\ spc[w1] = "done" /\ logged[w1] = << logger >>
          /\ spc[w2] = "putURL" /\ logged[w2] = << logger >>
          /\ Holding(w2, "response")

(***************************************************************************)
(* Properties of WrapHandler and WrapMiddleware.                           *)
(***************************************************************************)
\* C13: a handler made by WrapHandler calls h once on the native context of
\* the request wrapper, then sets the cached status and size of the response
\* wrapper to what h left in the native response, and returns nil; one made by
\* WrapMiddleware does the same and only then calls next once, on the same
\* context, and returns what next returned.
C13_WrapBridges ==
    /\ wpc = "next" => Len(wtrace) = 2
    /\ wpc \in {"next", "done"} /\ wkind # "none" =>
          /\ wtrace[1].call = "h" /\ wtrace[1].ctx = wctx.id
          /\ wtrace[2] = [call |-> "copy", ctx |-> wctx.id]
          /\ wrs = [status |-> wtrace[1].status, size |-> wtrace[1].contentLength]
    /\ wpc = "done" /\ wkind = "WrapHandler" => Len(wtrace) = 2 /\ wret = "nil"
    /\ wpc = "done" /\ wkind = "WrapMiddleware" =>
          /\ Len(wtrace) = 3
          /\ wtrace[3] = [call |-> "next", ctx |-> wctx.id, result |-> wret]

\* A middleware has returned the error of next, which wrote the native
\* response again after the copy-back.
C13_Witness ==
    /\ wpc = "done"
    /\ wkind = "WrapMiddleware"
    /\ wret = "error"
    /\ wrs = [status |-> 404, size |-> -1]
    /\ wctx.status = 500

(***************************************************************************)
(* Locking of the registry maps.                                           *)
(***************************************************************************)
\* Goroutines p and q are about to access the same map, one of them writing,
\* and the locks they take do not keep the two accesses apart.
Racing(p, q) ==
    /\ p # q
    /\ MapAccess(vpc[p]).map # "none"
    /\ MapAccess(vpc[p]).map = MapAccess(vpc[q]).map
    /\ MapAccess(vpc[p]).write \/ MapAccess(vpc[q]).write
    /\ LockHeld(vpc[p]) = "none" \/ LockHeld(vpc[q]) = "none"

\* C14: every read of virtHandlerMap and handlerMap by NewVirtHandler is made
\* with the lock held (in read or write mode) and every write with it held in
\* write mode, so no goroutine writes one of the maps while another reads or
\* writes it.
C14_MapsAccessedUnderLock ==
    \A p \in Callers :
        /\ MapAccess(vpc[p]).map # "none" =>
              IF MapAccess(vpc[p]).write THEN LockHeld(vpc[p]) = "write"
                                         ELSE LockHeld(vpc[p]) # "none"
        /\ \A q \in Callers : ~Racing(p, q)
        /\ vpc[p] # "fatal"

(***************************************************************************)
(* Properties of Reg() calls on one declared value.                        *)
(***************************************************************************)
\* C15: of the Reg() calls made on one declared value at most one at a time is
\* inside the initialization statements of init(), and the initialization
\* runs once for the descriptor: no second call gets past initTypes.
C15_InitMutuallyExclusive ==
    /\ Cardinality({p \in Sharers : shpc[p] \in InInit}) <= 1
    /\ Cardinality({p \in Sharers : shpc[p] \in {"initParamsAndSuffix", "initId", "done"}}) <= 1

(***************************************************************************)
(* Properties of the resets of a dispatch.                                 *)
(***************************************************************************)
\* C16: when the handler of a dispatch is about to be called, each of the five
\* wrappers it will see is bound to the native context of this dispatch (the
\* request to that context with this dispatch's header and URL wrappers, the
\* response to it with this dispatch's response header), whichever instances
\* the pools handed out.
C16_ResetBeforeHandler ==
    \A w \in Workers :
        spc[w] = "handler" =>
            \A k \in PoolFields :
                /\ held[w][k] # NoWrapper
                /\ wrappers[held[w][k]].ctx = w
                /\ wrappers[held[w][k]] = BoundByReset(w, k)

\* A dispatch is about to call its handler with a request wrapper and a
\* response header wrapper that an earlier, finished dispatch used.
C16_Witness ==
    \E w1, w2 \in Workers :
        /\ w1 # w2
        /\ spc[w1] = "done"
        /\ spc[w2] = "handler"
        /\ held[w2]["request"] = held[w1]["request"]
        /\ held[w2]["responseHeader"] = held[w1]["responseHeader"]

(***************************************************************************)
(* Properties of sequential NewVirtHandler calls.                          *)
(***************************************************************************)
\* Call p finds its id in virtHandlerMap: it is at hasVirtHandler or at the
\* return that follows, or it is just being made, and the id is there.
FindsExisting(p) ==
    /\ \/ vpc[p] \in {"has", "existing"}
       \/ vpc[p] = "idle" /\ vpc'[p] = "has"
    /\ vheap'[p].id \in DOMAIN virtHandlerMap

\* C17: a sequential NewVirtHandler call whose id is already in virtHandlerMap
\* leaves virtHandlerMap, handlerMap and the stored descriptor as they are,
\* whatever description, produces and params it was given, and returns the
\* stored instance.
C17_SequentialVirtRepeat ==
    [][\A p \in Callers :
          FindsExisting(p) =>
              LET stored == virtHandlerMap[vheap'[p].id]
              IN /\ virtHandlerMap' = virtHandlerMap
                 /\ handlerMap' = handlerMap
                 /\ vheap'[stored] = vheap[stored]
                 /\ vpc'[p] \in {"has", "existing", "done"}
                 /\ vpc'[p] = "done" => vret'[p] = stored]_vars

\* The second call was given another description, produces and params than the
\* first, derived the same id from a differently written prefix, and returned
\* the first call's descriptor.
C17_Witness ==
    /\ sequential
    /\ \A p \in {1, 2} : vpc[p] = "done"
    /\ vheap[1].id = vheap[2].id
    /\ vheap[1].description # vheap[2].description
    /\ vheap[1].produces # vheap[2].produces
    /\ vheap[1].params # vheap[2].params
    /\ vret[2] = 1
    /\ virtHandlerMap[vheap[2].id] = 1

(***************************************************************************)
(* Properties of the id that two declarations derive.  init() sorts the    *)
(* declared Types array in place and removes only repetitions, and it      *)
(* leaves Desc and the parameter names alone: the Types of a declaration   *)
(* are, as a set, what was declared, before and after Reg().               *)
(***************************************************************************)
TypeSet(a) == {a.Types[i] : i \in 1..Len(a.Types)}

\* The set of types that the declaration stands for: an empty list stands for
\* the nine standard types.
ResolvedTypeSet(a) ==
    IF Len(a.Types) = 0 THEN {AllTypes[i] : i \in 1..Len(AllTypes)} ELSE TypeSet(a)

\* No delimiter of the id occurs in the description.
DelimiterFree(a) == \A i \in 1..Len(a.Desc) : a.Desc[i] \notin {"[", "]"}

BothRegistered == sequential /\ pc[1] = "done" /\ pc[2] = "done"

\* Same Handler, Desc, path-parameter names and set of Types: the two calls
\* derive one id and the second returns the descriptor of the first.
SameDeclarationSameId ==
    (/\ decls[1].Handler = decls[2].Handler
     /\ decls[1].Desc = decls[2].Desc
     /\ PathNames(decls[1].Params) = PathNames(decls[2].Params)
     /\ TypeSet(decls[1]) = TypeSet(decls[2]))
        => /\ heap[1].id = heap[2].id
           /\ ret[1] = 1
           /\ ret[2] = 1

Occurrences(o) == Cardinality({i \in 1..Len(apiHandlers) : apiHandlers[i] = o})

\* C19: after any sequence of Reg() and NilApiHandler() calls, every descriptor
\* stored in apiHandlerMap appears exactly once in DefLessgo.apiHandlers, and
\* every entry of DefLessgo.apiHandlers is the instance that apiHandlerMap
\* holds under its id.
C19_MapAndListAgree ==
    Quiescent =>
        /\ \A k \in DOMAIN apiHandlerMap : Occurrences(apiHandlerMap[k]) = 1
        /\ \A i \in 1..Len(apiHandlers) :
              getApiHandler(heap[apiHandlers[i]].id) = apiHandlers[i]

(***************************************************************************)
(* Properties of virtHandlerMap and handlerMap together.                   *)
(***************************************************************************)
\* getHandlerMap(id): the callback stored under id, Nil when there is none.
getHandlerMap(k) == Lookup(handlerMap, k)

\* C20: in every reachable state, the states in the middle of concurrent
\* NewVirtHandler calls included, each id for which GetVirtHandler reports a
\* descriptor has its callback in handlerMap, and handlerMap has no id that
\* virtHandlerMap does not have.
C20_HandlerTableNeverBehind ==
    \A k \in DOMAIN virtHandlerMap \cup DOMAIN handlerMap :
        /\ GetVirtHandler(k) # Nil => getHandlerMap(k) # Nil
        /\ k \in DOMAIN virtHandlerMap

====
